---- MODULE Spec2Model ----
(***************************************************************************)
(* Model of simple_daq (simple_daq/simple_daq.py): the configuration       *)
(* reader parse_config_file, the option parser process_options, the        *)
(* validator process_config, the resolver set_config and the acquisition    *)
(* acquire_data.                                                           *)
(*                                                                         *)
(* Python values are records [t, s, n]: t is the Python type, s the text   *)
(* of a str as a sequence of fields (a word, or a run of whitespace), n    *)
(* the integer payload (an int, the items of a list of ints, 1/0 for a     *)
(* bool). A dict is a function from its keys. A text line is a sequence    *)
(* of fields too.                                                          *)
(***************************************************************************)
EXTENDS Integers, Sequences, FiniteSets, TLC

VARIABLES argv, fs, pc, config, options_config, used_config_keys,
          status, stderr, opened, validated, arg, ret, acq

vars == <<argv, fs, pc, config, options_config, used_config_keys,
          status, stderr, opened, validated, arg, ret, acq>>

----------------------------------------------------------------------------
(* Bounds of the model *)

\* largest number of channels (and of gains) a source of set_config lists
MaxChans == 2
\* largest number of lines of a file given to parse_config_file alone
MaxLines == 2
\* largest number of entries of a channels or gains string given to
\* process_config alone
MaxList == 2

----------------------------------------------------------------------------
(* Program constants *)

MIN_GAIN == 0
MAX_GAIN == 3
DEFAULT_SAMPLE_NUM == 1000
DEFAULT_SAMPLE_FREQ == 1000
DEFAULT_SUBDEV == 0
CURR_DIR_CONFIG == "daq-config"
HOME_DIR_CONFIG == ".daq-acquire"

----------------------------------------------------------------------------
(* Python values *)

Str(fields) == [t |-> "str", s |-> fields, n |-> <<>>]
IntV(i) == [t |-> "int", s |-> <<>>, n |-> <<i>>]
ListV(xs) == [t |-> "list", s |-> <<>>, n |-> xs]
BoolV(b) == [t |-> "bool", s |-> <<>>, n |-> IF b THEN <<1>> ELSE <<0>>]
None == [t |-> "none", s |-> <<>>, n |-> <<>>]

\* the whitespace runs a text can hold: a space, two spaces, a tab
Whitespace == {" ", "  ", "\t"}

\* str.split(): the words of a text, whitespace runs dropped
split(fields) == SelectSeq(fields, LAMBDA f : f \notin Whitespace)

\* reduce(lambda x,y: x+' '+y, words): the words joined by single spaces
\* (for a non-empty sequence of words)
JoinSpaces(words) ==
    [i \in 1..(2 * Len(words) - 1) |->
        IF i % 2 = 1 THEN words[(i + 1) \div 2] ELSE " "]

\* the decimal numerals of the model and the integers int() reads them as
IntOf ==
    [w \in {"-1", "0", "1", "2", "3", "4", "5", "6", "7", "8"} |->
        CASE w = "-1" -> -1 [] w = "0" -> 0 [] w = "1" -> 1 [] w = "2" -> 2
          [] w = "3" -> 3 [] w = "4" -> 4 [] w = "5" -> 5 [] w = "6" -> 6
          [] w = "7" -> 7 [] w = "8" -> 8]

IsNumeral(w) == w \in DOMAIN IntOf

\* str.lower() on the words of the model
LowerOf ==
    [w \in {"GAINS", "Aref", "Verbose", "Diff"} |->
        CASE w = "GAINS" -> "gains" [] w = "Aref" -> "aref"
          [] w = "Verbose" -> "verbose" [] w = "Diff" -> "diff"]

lower(w) == IF w \in DOMAIN LowerOf THEN LowerOf[w] ELSE w

\* int(v): an int is kept; a str is read as a numeral, the whitespace
\* around it ignored, ValueError otherwise; None or a list is a TypeError
PyInt(v) ==
    IF v.t = "int" \/ v.t = "bool"
      THEN [exc |-> "", val |-> v.n[1]]
    ELSE IF v.t = "str"
      THEN LET w == split(v.s)
           IN IF Len(w) = 1 /\ IsNumeral(w[1])
                THEN [exc |-> "", val |-> IntOf[w[1]]]
                ELSE [exc |-> "ValueError", val |-> 0]
    ELSE [exc |-> "TypeError", val |-> 0]

\* [int(x) for x in text.split()]
IntList(words) == [i \in 1..Len(words) |-> IntOf[words[i]]]

\* list * n
Repeat(xs, n) ==
    [i \in 1..(Len(xs) * n) |-> xs[((i - 1) % Len(xs)) + 1]]

----------------------------------------------------------------------------
(* The state of acquire_data *)

\* the comedi command before it is constructed
NoCmd ==
    [subdev |-> 0, flags |-> 0, scan_begin_arg |-> 0, convert_arg |-> 0,
     scan_end_arg |-> 0, stop_arg |-> 0, chanlist |-> <<>>,
     chanlist_len |-> 0]

\* the locals of acquire_data before it runs: the device, the command, the
\* loop index i and the result ret of the last comedi call, the number of
\* calls of comedi_command_test and of comedi_command made so far, the
\* read loop's bytes_total, bytes_read and datastr (the places in the
\* device's stream of the bytes held), the errno of the last OSError
\* caught, and the number of rows of the array returned
NoAcq ==
    [dev |-> "none", cmd |-> NoCmd, i |-> 0, ret |-> 0, tests |-> 0,
     commands |-> 0, bytes_total |-> 0, bytes_read |-> 0, datastr |-> <<>>,
     err |-> 0, rows |-> 0]

----------------------------------------------------------------------------
(* dicts *)

\* del d[key]
DelKey(d, key) == [k \in DOMAIN d \ {key} |-> d[k]]

\* the dict with no key
EmptyDict == [k \in {} |-> None]

\* d.update(other)
update(d, other) == other @@ d

\* d.keys(): the keys as a list, in the dict's own order
RECURSIVE keys(_)
keys(d) ==
    IF DOMAIN d = {} THEN <<>>
    ELSE LET k == CHOOSE x \in DOMAIN d : TRUE
         IN <<k>> \o keys(DelKey(d, k))

Range(sq) == {sq[i] : i \in DOMAIN sq}

\* for key in key_list: try: del d[key] except: pass
DropKeys(d, key_list) == [k \in DOMAIN d \ Range(key_list) |-> d[k]]

----------------------------------------------------------------------------
(* parse_config_file *)

\* a file of the file system: whether the path exists, whether open()
\* succeeds, and its lines
File(ls) == [exists |-> TRUE, readable |-> TRUE, lines |-> ls]
NoFile == [exists |-> FALSE, readable |-> FALSE, lines |-> <<>>]
Unreadable == [exists |-> TRUE, readable |-> FALSE, lines |-> <<>>]

\* the loop over fid.readlines(): exc is the exception that ends it, if any
RECURSIVE ParseLines(_, _)
ParseLines(lines, cfg) ==
    IF lines = <<>> THEN [exc |-> "", config |-> cfg]
    ELSE LET line == split(Head(lines))
         IN IF Len(line) = 0 THEN ParseLines(Tail(lines), cfg)
            ELSE IF line[1] = "#" THEN ParseLines(Tail(lines), cfg)
            ELSE IF Len(line) = 1
              THEN \* reduce() of an empty sequence with no initial value
                   [exc |-> "TypeError", config |-> cfg]
            ELSE ParseLines(Tail(lines),
                            update(cfg, lower(line[1]) :>
                                          Str(JoinSpaces(Tail(line)))))

parse_config_file(file) ==
    IF ~file.readable THEN [exc |-> "IOError", config |-> EmptyDict]
    ELSE ParseLines(file.lines, EmptyDict)

----------------------------------------------------------------------------
(* process_config *)

\* a message written to standard error: the source label, the problem, and
\* the path the message names (if it names one). NoMsg stands for no
\* message. The variable stderr is the sequence of the messages written so
\* far, in the order of the writes.
Msg(src, what, path) == [src |-> src, what |-> what, path |-> path]
NoMsg == Msg("", "", "")

\* the state of a run of process_config: the dict (changed in place), how
\* the run stands (ok, exit1 after sys.exit(1), uncaught after an exception
\* nothing catches) and the message written
Running(cfg) == [config |-> cfg, st |-> "ok", err |-> NoMsg]
Exit1(cfg, src, what) ==
    [config |-> cfg, st |-> "exit1", err |-> Msg(src, what, "")]
Uncaught(cfg) == [config |-> cfg, st |-> "uncaught", err |-> NoMsg]

CheckSampleNum(r, src_str) ==
    IF r.st # "ok" \/ "sample_num" \notin DOMAIN r.config THEN r
    ELSE LET c == PyInt(r.config["sample_num"])
             cfg == [r.config EXCEPT !["sample_num"] = IntV(c.val)]
         IN IF c.exc = "ValueError"
              THEN Exit1(r.config, src_str, "invalid sample number value")
            ELSE IF c.exc = "TypeError" THEN Uncaught(r.config)
            ELSE IF c.val <= 0
              THEN Exit1(cfg, src_str, "number of sample must be > 0")
            ELSE Running(cfg)

CheckSampleFreq(r, src_str) ==
    IF r.st # "ok" \/ "sample_freq" \notin DOMAIN r.config THEN r
    ELSE LET c == PyInt(r.config["sample_freq"])
             cfg == [r.config EXCEPT !["sample_freq"] = IntV(c.val)]
         IN IF c.exc = "ValueError"
              THEN Exit1(r.config, src_str, "invalid sample frequency value")
            ELSE IF c.exc = "TypeError" THEN Uncaught(r.config)
            ELSE IF c.val <= 0
              THEN Exit1(cfg, src_str, "sample frequency must be > 0")
            ELSE Running(cfg)

CheckChannels(r, src_str) ==
    IF r.st # "ok" \/ "channels" \notin DOMAIN r.config THEN r
    ELSE LET v == r.config["channels"]
             w == split(v.s)
             xs == IF v.t = "list" THEN v.n ELSE IntList(w)
             cfg == [r.config EXCEPT !["channels"] = ListV(xs)]
         IN IF v.t \notin {"list", "str"} THEN Uncaught(r.config)
            ELSE IF v.t = "str" /\ \E i \in 1..Len(w) : ~IsNumeral(w[i])
              THEN Exit1(r.config, src_str, "invalid channel values")
            ELSE IF \E i \in 1..Len(xs) : xs[i] < 0
              THEN Exit1(cfg, src_str, "channel values must be >= 0")
            ELSE Running(cfg)

\* CheckGains with the fault of an upper limit that is excluded
\* (x >= MAX_GAIN for x > MAX_GAIN)
CheckGains_Below(r, src_str) ==
    IF r.st # "ok" \/ "gains" \notin DOMAIN r.config THEN r
    ELSE LET v == r.config["gains"]
             w == split(v.s)
             xs == IF v.t = "list" THEN v.n ELSE IntList(w)
             cfg == [r.config EXCEPT !["gains"] = ListV(xs)]
         IN IF v.t \notin {"list", "str"} THEN Uncaught(r.config)
            ELSE IF v.t = "str" /\ \E i \in 1..Len(w) : ~IsNumeral(w[i])
              THEN Exit1(r.config, src_str, "invalid gain values")
            ELSE IF \E i \in 1..Len(xs) : xs[i] < MIN_GAIN \/ xs[i] >= MAX_GAIN
              THEN Exit1(cfg, src_str, "gains must be between 0 and 3")
            ELSE Running(cfg)

CheckGains(r, src_str) ==
    IF r.st # "ok" \/ "gains" \notin DOMAIN r.config THEN r
    ELSE LET v == r.config["gains"]
             w == split(v.s)
             xs == IF v.t = "list" THEN v.n ELSE IntList(w)
             cfg == [r.config EXCEPT !["gains"] = ListV(xs)]
         IN IF v.t \notin {"list", "str"} THEN Uncaught(r.config)
            ELSE IF v.t = "str" /\ \E i \in 1..Len(w) : ~IsNumeral(w[i])
              THEN Exit1(r.config, src_str, "invalid gain values")
            ELSE IF \E i \in 1..Len(xs) : xs[i] < MIN_GAIN \/ xs[i] > MAX_GAIN
              THEN Exit1(cfg, src_str, "gains must be between 0 and 3")
            ELSE Running(cfg)

\* CheckGainsChannels with the fault of a single gain that is not repeated
CheckGainsChannels_NoRepeat(r, src_str) ==
    IF r.st # "ok" \/ "gains" \notin DOMAIN r.config
         \/ "channels" \notin DOMAIN r.config THEN r
    ELSE LET ngains == Len(r.config["gains"].n)
             nchans == Len(r.config["channels"].n)
         IN IF ~(ngains = nchans \/ ngains = 1)
              THEN Exit1(r.config, src_str,
                         "the number of gain values be equal to 1 or to the number of channels")
            ELSE r

\* one gain, or one for each channel; a single gain is repeated
CheckGainsChannels(r, src_str) ==
    IF r.st # "ok" \/ "gains" \notin DOMAIN r.config
         \/ "channels" \notin DOMAIN r.config THEN r
    ELSE LET ngains == Len(r.config["gains"].n)
             nchans == Len(r.config["channels"].n)
         IN IF ~(ngains = nchans \/ ngains = 1)
              THEN Exit1(r.config, src_str,
                         "the number of gain values be equal to 1 or to the number of channels")
            ELSE IF ngains = 1
              THEN Running([r.config EXCEPT
                     !["gains"] = ListV(Repeat(r.config["gains"].n, nchans))])
            ELSE r

CheckSubdev(r, src_str) ==
    IF r.st # "ok" \/ "subdev" \notin DOMAIN r.config THEN r
    ELSE LET c == PyInt(r.config["subdev"])
         IN IF c.exc = "ValueError"
              THEN Exit1(r.config, src_str, "invalid subdevice value")
            ELSE IF c.exc = "TypeError" THEN Uncaught(r.config)
            ELSE Running([r.config EXCEPT !["subdev"] = IntV(c.val)])

CheckAref(r, src_str) ==
    IF r.st # "ok" \/ "aref" \notin DOMAIN r.config THEN r
    ELSE IF r.config["aref"] \notin
              {Str(<<"diff">>), Str(<<"ground">>), Str(<<"common">>)}
      THEN Exit1(r.config, src_str, "invalid reference mode")
    ELSE r

process_config(cfg, src_str) ==
    CheckAref(
      CheckSubdev(
        CheckGainsChannels(
          CheckGains(
            CheckChannels(
              CheckSampleFreq(
                CheckSampleNum(Running(cfg), src_str),
                src_str),
              src_str),
            src_str),
          src_str),
        src_str),
      src_str)

----------------------------------------------------------------------------
(* process_options *)

\* the defaults given to parser.add_option
OptionDefaults ==
    [k \in {"verbose", "plot", "device", "sample_num", "sample_freq",
            "channels", "gains", "subdev", "output_file", "config_file",
            "aref"} |->
        IF k \in {"verbose", "plot"} THEN BoolV(FALSE) ELSE None]

\* args: the options given on the command line, each with the value the
\* parser reads for it. The options left at None are removed.
process_options(args) ==
    LET options == update(OptionDefaults, args)
    IN [k \in {x \in DOMAIN options : options[x] # None} |-> options[k]]

----------------------------------------------------------------------------
(* set_config *)

\* the numeral of i, for i in 0..8
Digits == <<"0", "1", "2", "3", "4", "5", "6", "7", "8">>

\* DEFAULT_CHANNELS = '0 1 2 3 4 5 6 7'
DEFAULT_CHANNELS == JoinSpaces(SubSeq(Digits, 1, 8))

DefaultConfig ==
    [k \in DOMAIN OptionDefaults |->
        CASE k = "device" -> Str(<<"/dev/comedi0">>)
          [] k = "sample_num" -> IntV(DEFAULT_SAMPLE_NUM)
          [] k = "sample_freq" -> IntV(DEFAULT_SAMPLE_FREQ)
          [] k = "channels" -> Str(DEFAULT_CHANNELS)
          [] k = "gains" -> Str(<<"0">>)
          [] k = "subdev" -> IntV(DEFAULT_SUBDEV)
          [] k = "output_file" -> None
          [] k = "config_file" -> None
          [] k = "verbose" -> BoolV(FALSE)
          [] k = "plot" -> BoolV(FALSE)
          [] k = "aref" -> Str(<<"ground">>)]

\* the eleven recognized keys
Recognized == DOMAIN DefaultConfig

\* the path a str names
PathOf(v) == v.s[1]

\* MergeFileConfig with the fault of a merge that comes before the
\* validation
MergeFileConfig_MergeFirst(file_config_read, used, cfg, src_str) ==
    LET file_config == DropKeys(file_config_read, used)
        r == process_config(file_config, src_str)
    IN [st |-> r.st, err |-> r.err, validated |-> file_config,
        config |-> update(cfg, r.config),
        used |-> IF r.st = "ok" THEN used \o keys(r.config) ELSE used]

\* MergeFileConfig with the fault of a validation that comes before the
\* used keys are removed
MergeFileConfig_ValidateFirst(file_config_read, used, cfg, src_str) ==
    LET r == process_config(file_config_read, src_str)
        file_config == DropKeys(r.config, used)
    IN [st |-> r.st, err |-> r.err, validated |-> file_config_read,
        config |-> IF r.st = "ok" THEN update(cfg, file_config) ELSE cfg,
        used |-> IF r.st = "ok" THEN used \o keys(file_config) ELSE used]

\* the treatment of the dict read from a file: the keys already used are
\* removed, the rest is processed, merged into the configuration and
\* recorded as used
MergeFileConfig(file_config_read, used, cfg, src_str) ==
    LET file_config == DropKeys(file_config_read, used)
        r == process_config(file_config, src_str)
    IN [st |-> r.st, err |-> r.err, validated |-> file_config,
        config |-> IF r.st = "ok" THEN update(cfg, r.config) ELSE cfg,
        used |-> IF r.st = "ok" THEN used \o keys(r.config) ELSE used]

\* path_exists with the fault of a test that is always passed
path_exists_Always(path) == TRUE

\* os.path.exists(path)
path_exists(path) == fs[path].exists

\* UnusedLeft with the fault of a count against the eleven recognized keys
UnusedLeft_Eleven(used, cfg) == Len(used) # Cardinality(Recognized)

\* whether some configuration option is still unused
UnusedLeft(used, cfg) == Len(used) # Cardinality(DOMAIN cfg)

\* standard error after sys.stderr.write(msg): the message comes after
\* what was written before
Written(msg) == IF msg = NoMsg THEN stderr ELSE Append(stderr, msg)

\* the process ends: sys.exit(1) after the message is written, or an
\* exception nothing catches (or, in acquire_data, the return)
Ends(st, msg) ==
    /\ status' = st
    /\ stderr' = Written(msg)
    /\ UNCHANGED pc

\* lines 334-348
Defaults ==
    /\ pc = "defaults" /\ status = "running"
    /\ LET r == process_config(DefaultConfig, "default config")
       IN /\ validated' = DefaultConfig
          /\ config' = r.config
          /\ IF r.st = "ok"
               THEN pc' = "options" /\ UNCHANGED <<status, stderr>>
               ELSE Ends(r.st, r.err)
    /\ UNCHANGED <<argv, fs, options_config, used_config_keys, opened,
                   arg, ret, acq>>

\* lines 350-354
Options ==
    /\ pc = "options" /\ status = "running"
    /\ LET oc == process_options(argv)
           r == process_config(oc, "command line config")
       IN /\ validated' = oc
          /\ options_config' = r.config
          /\ IF r.st = "ok"
               THEN /\ config' = update(config, r.config)
                    /\ used_config_keys' = keys(r.config)
                    /\ pc' = "config_file"
                    /\ UNCHANGED <<status, stderr>>
               ELSE /\ Ends(r.st, r.err)
                    /\ UNCHANGED <<config, used_config_keys>>
    /\ UNCHANGED <<argv, fs, opened, arg, ret, acq>>

\* lines 365-392. The listing of the files printed when verbose is set
\* (lines 394-405) changes nothing of the state.
ConfigFile ==
    /\ pc = "config_file" /\ status = "running"
    /\ IF "config_file" \notin DOMAIN options_config
         THEN /\ pc' = "curr_dir"
              /\ UNCHANGED <<config, used_config_keys, status, stderr,
                             opened, validated>>
       ELSE LET path == PathOf(options_config["config_file"])
            IN IF ~path_exists(path)
                 THEN /\ Ends("exit1", Msg("option -i",
                                "configuration file not found", path))
                      /\ UNCHANGED <<config, used_config_keys, opened,
                                     validated>>
               ELSE LET p == parse_config_file(fs[path])
                        m == MergeFileConfig(p.config, used_config_keys,
                                             config, "file config option -i")
                    IN /\ opened' = Append(opened, path)
                       /\ IF p.exc = "IOError"
                            THEN /\ Ends("exit1", Msg("option -i",
                                      "unable to parse configuration file",
                                      path))
                                 /\ UNCHANGED <<config, used_config_keys,
                                                validated>>
                          ELSE IF p.exc # ""
                            THEN /\ Ends("uncaught", NoMsg)
                                 /\ UNCHANGED <<config, used_config_keys,
                                                validated>>
                          ELSE /\ validated' = m.validated
                               /\ config' = m.config
                               /\ used_config_keys' = m.used
                               /\ IF m.st = "ok"
                                    THEN /\ pc' = "curr_dir"
                                         /\ UNCHANGED <<status, stderr>>
                                    ELSE Ends(m.st, m.err)
    /\ UNCHANGED <<argv, fs, options_config, arg, ret, acq>>

\* lines 408-420 (the file daq-config) and 423-435 (the file .daq-acquire):
\* the same steps on another file
DirFile(at, path, src_str, next) ==
    /\ pc = at /\ status = "running"
    /\ IF UnusedLeft(used_config_keys, config) /\ path_exists(path)
         THEN LET p == parse_config_file(fs[path])
                  m == MergeFileConfig(p.config, used_config_keys, config,
                                       src_str)
              IN /\ opened' = Append(opened, path)
                 /\ IF p.exc # ""
                      THEN /\ Ends("uncaught", NoMsg)
                           /\ UNCHANGED <<config, used_config_keys,
                                          validated>>
                    ELSE /\ validated' = m.validated
                         /\ config' = m.config
                         /\ used_config_keys' = m.used
                         /\ IF m.st = "ok"
                              THEN /\ pc' = next
                                   /\ UNCHANGED <<status, stderr>>
                              ELSE Ends(m.st, m.err)
       ELSE /\ pc' = next
            /\ UNCHANGED <<config, used_config_keys, status, stderr,
                           opened, validated>>
    /\ UNCHANGED <<argv, fs, options_config, arg, ret, acq>>

CurrDirFile == DirFile("curr_dir", CURR_DIR_CONFIG, "daq_config", "home_dir")

HomeDirFile == DirFile("home_dir", HOME_DIR_CONFIG, ".daq_acquire", "combined")

\* lines 437-439
Combined ==
    /\ pc = "combined" /\ status = "running"
    /\ LET r == process_config(config, "combined config")
       IN /\ validated' = config
          /\ config' = r.config
          /\ IF r.st = "ok"
               THEN /\ status' = "returned"
                    /\ pc' = "done"
                    /\ UNCHANGED stderr
               ELSE Ends(r.st, r.err)
    /\ UNCHANGED <<argv, fs, options_config, used_config_keys, opened,
                   arg, ret, acq>>

----------------------------------------------------------------------------
(* The inputs of set_config: the command line and the three files *)

\* the words "0 1 .. k-1" of a channels value, the words of a gains value
\* with k entries ("2", "2 3", "2 3 1", ..)
ChanWords(k) == SubSeq(Digits, 1, k)
GainWords(k) == [i \in 1..k |-> Digits[(i % 3) + 2]]

ChanLine(k) == JoinSpaces(<<"channels">> \o ChanWords(k))
GainLine(k) == <<"GAINS", "\t">> \o JoinSpaces(GainWords(k)) \o <<" ">>

\* a file that sets the eight keys the command line leaves when it gives
\* -i alone
RestLines ==
    << JoinSpaces(<<"device", "/dev/comedi1">>),
       JoinSpaces(<<"sample_num", "7">>),
       JoinSpaces(<<"sample_freq", "8">>),
       ChanLine(MaxChans),
       GainLine(MaxChans),
       JoinSpaces(<<"subdev", "-1">>),
       JoinSpaces(<<"output_file", "out.txt">>),
       JoinSpaces(<<"aref", "diff">>) >>

ConfigFiles ==
    {File(<< <<"#", " ", "settings">>, <<>>, <<"\t">> >>)}
      \cup {File(<<ChanLine(k)>>) : k \in 1..MaxChans}
      \cup {File(<<GainLine(k)>>) : k \in 1..MaxChans}
      \cup {File(<<ChanLine(k), GainLine(j)>>) :
              k \in 1..MaxChans, j \in (MaxChans - 1)..MaxChans}
      \cup {File(<< JoinSpaces(<<"aref", "diff">>) >>),
            File(<< JoinSpaces(<<"aref", "common">>),
                    JoinSpaces(<<"sample_num", "5">>) >>),
            File(<< JoinSpaces(<<"sample_num", "abc">>) >>),
            File(<< JoinSpaces(<<"Aref", "Diff">>) >>),
            File(<< JoinSpaces(<<"Verbose", "1">>),
                    JoinSpaces(<<"#foo", "bar", "baz">>) >>),
            File(<< <<"plot">> >>),
            File(RestLines)}

\* the options given on the command line besides -i
Bag(ks, vs) == [k \in Range(ks) |-> vs[CHOOSE i \in DOMAIN ks : ks[i] = k]]

CommandLineOptions ==
    { EmptyDict,
      Bag(<<"channels">>, <<Str(JoinSpaces(ChanWords(MaxChans)))>>),
      Bag(<<"gains">>, <<Str(<<"2">>)>>),
      Bag(<<"channels", "gains">>,
          <<Str(JoinSpaces(ChanWords(MaxChans))), Str(<<"2">>)>>),
      Bag(<<"channels", "gains">>,
          <<Str(<<"0">>), Str(JoinSpaces(GainWords(MaxChans)))>>),
      Bag(<<"sample_num">>, <<IntV(0)>>),
      Bag(<<"sample_num", "aref">>, <<IntV(5), Str(<<"common">>)>>),
      Bag(<<"verbose", "plot">>, <<BoolV(TRUE), BoolV(TRUE)>>),
      Bag(<<"verbose", "plot", "device", "sample_num", "sample_freq",
            "channels", "gains", "subdev", "output_file", "aref">>,
          <<BoolV(TRUE), BoolV(TRUE), Str(<<"/dev/comedi2">>), IntV(1),
            IntV(1), Str(<<"3", "  ", "4">>), Str(<<"3">>), IntV(-1),
            Str(<<"data.txt">>), Str(<<"ground">>)>>) }

\* -i run.cfg
WithConfigFile(args) == update(args, "config_file" :> Str(<<"run.cfg">>))

CommandLines ==
    CommandLineOptions \cup {WithConfigFile(a) : a \in CommandLineOptions}

Paths == {"run.cfg", CURR_DIR_CONFIG, HOME_DIR_CONFIG}

Init ==
    /\ argv \in CommandLines
    /\ \E named \in IF "config_file" \in DOMAIN argv
                      THEN ConfigFiles \cup {NoFile, Unreadable}
                      ELSE {NoFile},
          curr \in ConfigFiles \cup {NoFile, Unreadable},
          home \in ConfigFiles \cup {NoFile, Unreadable} :
         fs = [p \in Paths |->
                 IF p = "run.cfg" THEN named
                 ELSE IF p = CURR_DIR_CONFIG THEN curr ELSE home]
    /\ pc = "defaults"
    /\ config = EmptyDict
    /\ options_config = EmptyDict
    /\ used_config_keys = <<>>
    /\ status = "running"
    /\ stderr = <<>>
    /\ opened = <<>>
    /\ validated = EmptyDict
    /\ acq = NoAcq
    /\ arg = EmptyDict
    /\ ret = Running(EmptyDict)

Next ==
    \/ Defaults
    \/ Options
    \/ ConfigFile
    \/ CurrDirFile
    \/ HomeDirFile
    \/ Combined

Spec == Init /\ [][Next]_vars

----------------------------------------------------------------------------
(* What the sources of a run give, in the order of precedence *)

\* the dict a file gives: what parse_config_file reads from it, nothing
\* when the file is absent or cannot be parsed
Gives(path) ==
    LET p == parse_config_file(fs[path])
    IN IF fs[path].exists /\ p.exc = "" THEN p.config ELSE EmptyDict

NamedGives ==
    IF "config_file" \in DOMAIN argv THEN Gives("run.cfg") ELSE EmptyDict

\* the sources, highest precedence first: the options given on the command
\* line, the file named by -i, daq-config, .daq-acquire, the defaults
Sources ==
    <<argv, NamedGives, Gives(CURR_DIR_CONFIG), Gives(HOME_DIR_CONFIG),
      DefaultConfig>>

\* the place in Sources of the highest source that gives key k
SourceOf(k) ==
    CHOOSE i \in 1..5 :
        /\ k \in DOMAIN Sources[i]
        /\ \A j \in 1..(i - 1) : k \notin DOMAIN Sources[j]

\* the value of key k as that source gives it
Effective(k) == Sources[SourceOf(k)][k]

\* a value given for key k, converted as process_config converts the key
Typed(k, v) == process_config(k :> v, "").config[k]
ValidFor(k, v) == process_config(k :> v, "").st = "ok"

\* every source is there and is valid on its own
SourcesValid ==
    /\ \A p \in Paths : fs[p].exists => parse_config_file(fs[p]).exc = ""
    /\ "config_file" \in DOMAIN argv => fs["run.cfg"].exists
    /\ \A i \in 1..5 : process_config(Sources[i], "").st = "ok"

\* the resolved value of key k that the order of precedence asks for: the
\* effective value, converted, a single gain repeated for each channel
Resolved(k) ==
    LET v == Typed(k, Effective(k))
    IN IF k = "gains" /\ Len(v.n) = 1
         THEN ListV(Repeat(v.n, Len(Typed("channels", Effective("channels")).n)))
         ELSE v

----------------------------------------------------------------------------
(* C1 *)

\* C1: when set_config returns, every recognized key has the value given by
\* the highest-precedence source that supplies it (command line > file
\* named by -i > daq-config > .daq-acquire > defaults).
C1_PrecedenceAllKeys ==
    status = "returned" => \A k \in Recognized : config[k] = Resolved(k)

\* the same for the keys other than the two flags: this much holds
PrecedenceExceptFlags ==
    status = "returned" =>
        \A k \in Recognized \ {"verbose", "plot"} : config[k] = Resolved(k)

\* once a key is used, no later step of the merge changes its value, but
\* for the repetition of a single gain
UsedKeysKeepValue ==
    [][\A k \in Range(used_config_keys) \ {"gains"} :
          config'[k] = config[k]]_vars

----------------------------------------------------------------------------
(* C2 *)

\* the effective gains value is a single gain and the effective channels
\* value lists more than one channel, every source being valid
SingleGainManyChannels ==
    /\ SourcesValid
    /\ Len(Typed("gains", Effective("gains")).n) = 1
    /\ Len(Typed("channels", Effective("channels")).n) > 1

\* C2: when the effective gains value is a single value g and the effective
\* channels value has k > 1 entries (whatever source gives each, the
\* default gains '0' included), set_config returns with gains = k times g.
C2_SingleGainBroadcast ==
    (status # "running" /\ SingleGainManyChannels) =>
        /\ status = "returned"
        /\ config["gains"] =
             ListV(Repeat(Typed("gains", Effective("gains")).n,
                          Len(Typed("channels", Effective("channels")).n)))

\* the same when the single gain is given by a source other than the
\* defaults: this much holds
SingleGainBroadcastWhenGiven ==
    (status # "running" /\ SingleGainManyChannels /\ SourceOf("gains") < 5) =>
        /\ status = "returned"
        /\ config["gains"] =
             ListV(Repeat(Typed("gains", Effective("gains")).n,
                          Len(Typed("channels", Effective("channels")).n)))

----------------------------------------------------------------------------
(* C4 *)

\* C4: the bag process_options returns holds only the options given on the
\* command line, and only those are recorded as used after the command
\* line step.
C4_OnlyGivenOptions ==
    pc = "config_file" =>
        /\ DOMAIN options_config = DOMAIN argv
        /\ Range(used_config_keys) = DOMAIN argv

----------------------------------------------------------------------------
(* process_config alone, on the dicts it can be given *)

\* the texts of at most n words of W, joined by single spaces
Texts(W, n) == {Str(JoinSpaces(ws)) : ws \in UNION {[1..m -> W] : m \in 0..n}}

\* the dicts that give key k one of the values vs, or do not hold it
Maybe(k, vs) == {EmptyDict} \cup {k :> v : v \in vs}

ProcessInputs ==
    {a @@ b @@ c @@ d @@ e @@ f :
        a \in Maybe("sample_num",
                    {Str(<<"0">>), Str(<<"1">>), Str(<<"abc">>), IntV(0)}),
        b \in Maybe("sample_freq", {Str(<<"0">>), IntV(1)}),
        c \in Maybe("subdev", {Str(<<"-1">>), Str(<<"x">>)}),
        d \in Maybe("channels",
                    Texts({"-1", "0", "x"}, MaxList) \cup {ListV(<<0, 1>>)}),
        e \in Maybe("gains",
                    Texts({"3", "4", "x"}, MaxList) \cup {ListV(<<3>>)}),
        f \in Maybe("aref", {Str(<<"ground">>), Str(<<"Diff">>)})}

InitProcess ==
    /\ pc = "process_config"
    /\ arg \in ProcessInputs
    /\ ret = Running(EmptyDict)
    /\ argv = EmptyDict
    /\ fs = [p \in Paths |-> NoFile]
    /\ config = EmptyDict
    /\ options_config = EmptyDict
    /\ used_config_keys = <<>>
    /\ status = "running"
    /\ stderr = <<>>
    /\ opened = <<>>
    /\ validated = EmptyDict
    /\ acq = NoAcq

ProcessCall ==
    /\ pc = "process_config"
    /\ ret' = process_config(arg, "config")
    /\ pc' = "processed"
    /\ UNCHANGED <<argv, fs, config, options_config, used_config_keys,
                   status, stderr, opened, validated, arg, acq>>

NextProcess == ProcessCall

SpecProcess == InitProcess /\ [][NextProcess]_vars

----------------------------------------------------------------------------
(* parse_config_file alone, on the files of at most MaxLines lines *)

ParseInputLines ==
    { <<>>,
      <<" ">>,
      <<"#", " ", "gains", " ", "1">>,
      <<"#gains", " ", "1">>,
      <<"gains", " ", "1">>,
      <<"\t", "GAINS", "  ", "2", "\t", "3", " ">>,
      <<"aref", " ", "diff">>,
      <<"plot">>,
      <<"verbose", " ">> }

InitParse ==
    /\ pc = "parse_config_file"
    /\ arg \in {File(ls) :
                  ls \in UNION {[1..m -> ParseInputLines] : m \in 0..MaxLines}}
    /\ ret = [exc |-> "", config |-> EmptyDict]
    /\ argv = EmptyDict
    /\ fs = [p \in Paths |-> NoFile]
    /\ config = EmptyDict
    /\ options_config = EmptyDict
    /\ used_config_keys = <<>>
    /\ status = "running"
    /\ stderr = <<>>
    /\ opened = <<>>
    /\ validated = EmptyDict
    /\ acq = NoAcq

ParseCall ==
    /\ pc = "parse_config_file"
    /\ ret' = parse_config_file(arg)
    /\ pc' = "parsed"
    /\ UNCHANGED <<argv, fs, config, options_config, used_config_keys,
                   status, stderr, opened, validated, arg, acq>>

NextParse == ParseCall

SpecParse == InitParse /\ [][NextParse]_vars

----------------------------------------------------------------------------
(* What makes a dict invalid, stated on the values as given *)

\* a value is numeric when it is an int, or a text of one numeral
Numeric(v) ==
    \/ v.t = "int"
    \/ v.t = "str" /\ Len(split(v.s)) = 1 /\ IsNumeral(split(v.s)[1])

NumberOf(v) == IF v.t = "int" THEN v.n[1] ELSE IntOf[split(v.s)[1]]

\* the entries of a list value: the items of a list, the words of a text
EntryCount(v) == IF v.t = "list" THEN Len(v.n) ELSE Len(split(v.s))
EntriesNumeric(v) ==
    v.t = "list" \/ \A i \in 1..Len(split(v.s)) : IsNumeral(split(v.s)[i])
Entry(v, i) == IF v.t = "list" THEN v.n[i] ELSE IntOf[split(v.s)[i]]

\* some key of d holds an invalid value
InvalidValues(d) ==
    \/ \E k \in {"sample_num", "sample_freq"} \cap DOMAIN d :
          ~Numeric(d[k]) \/ NumberOf(d[k]) <= 0
    \/ "subdev" \in DOMAIN d /\ ~Numeric(d["subdev"])
    \/ /\ "channels" \in DOMAIN d
       /\ \/ ~EntriesNumeric(d["channels"])
          \/ \E i \in 1..EntryCount(d["channels"]) : Entry(d["channels"], i) < 0
    \/ /\ "gains" \in DOMAIN d
       /\ \/ ~EntriesNumeric(d["gains"])
          \/ \E i \in 1..EntryCount(d["gains"]) :
                Entry(d["gains"], i) < 0 \/ Entry(d["gains"], i) > 3
    \/ /\ "aref" \in DOMAIN d
       /\ d["aref"].s \notin {<<"ground">>, <<"diff">>, <<"common">>}

\* gains and channels are both in d and the number of gains is neither 1
\* nor the number of channels
LenMismatch(d) ==
    /\ {"gains", "channels"} \subseteq DOMAIN d
    /\ EntryCount(d["gains"]) \notin {1, EntryCount(d["channels"])}

Invalid(d) == InvalidValues(d) \/ LenMismatch(d)

----------------------------------------------------------------------------
(* C3 *)

\* C3: when set_config returns, the configuration holds the eleven
\* recognized keys, sample_num and sample_freq integers > 0, subdev an
\* integer, channels a list of integers >= 0, gains a list of integers in
\* 0..3 as long as channels, and aref one of ground, diff, common.
C3_ReturnedConfigValid ==
    status = "returned" =>
        /\ Recognized \subseteq DOMAIN config
        /\ \A k \in {"sample_num", "sample_freq"} :
              config[k].t = "int" /\ config[k].n[1] > 0
        /\ config["subdev"].t = "int"
        /\ config["channels"].t = "list"
        /\ \A i \in 1..Len(config["channels"].n) : config["channels"].n[i] >= 0
        /\ config["gains"].t = "list"
        /\ \A i \in 1..Len(config["gains"].n) :
              config["gains"].n[i] \in 0..3
        /\ Len(config["gains"].n) = Len(config["channels"].n)
        /\ config["aref"] \in
              {Str(<<"ground">>), Str(<<"diff">>), Str(<<"common">>)}

\* set_config returned a configuration whose channels come from daq-config
\* and whose single gain comes from the command line
C3_Witness ==
    /\ status = "returned"
    /\ SourceOf("channels") = 3
    /\ SourceOf("gains") = 1
    /\ Len(config["gains"].n) = MaxChans

----------------------------------------------------------------------------
(* C5 *)

\* C5: process_config ends the process with exit status 1 exactly when a
\* key that is present is invalid (sample_num or sample_freq non-numeric or
\* <= 0, subdev non-numeric, a channels entry non-numeric or < 0, a gains
\* entry non-numeric or outside 0..3, aref not ground, diff or common, or
\* the number of gains neither 1 nor the number of channels); otherwise it
\* returns.
C5_ExitIffInvalid ==
    pc = "processed" =>
        /\ ret.st \in {"ok", "exit1"}
        /\ ret.st = "exit1" <=> Invalid(arg)

\* a dict whose gains are "3" alone passed, sample_num being "1"
C5_Witness ==
    /\ pc = "processed"
    /\ ret.st = "ok"
    /\ DOMAIN arg = {"sample_num", "gains", "subdev"}
    /\ arg["gains"] = Str(<<"3">>)
    /\ arg["sample_num"] = Str(<<"1">>)
    /\ arg["subdev"] = Str(<<"-1">>)

----------------------------------------------------------------------------
(* C6 *)

\* C6: a step of set_config that validates a dict (a source, or the merged
\* configuration) in which the number of gains is neither 1 nor the number
\* of channels ends the process with exit status 1 and leaves the
\* configuration as it was before the step.
C6_MismatchExitsUnmerged ==
    [][LenMismatch(validated') => (status' = "exit1" /\ config' = config)]_vars

\* the run ended on a file daq-config whose gains do not match its channels
C6_Witness ==
    /\ status = "exit1"
    /\ pc = "curr_dir"
    /\ LenMismatch(validated)
    /\ ~InvalidValues(validated)
    /\ DOMAIN config = Recognized

\* the run ended in the combined validation on gains that do not match the
\* channels
C6_WitnessCombined ==
    /\ status = "exit1"
    /\ pc = "combined"
    /\ LenMismatch(validated)
    /\ config = validated

----------------------------------------------------------------------------
(* C7 *)

\* -i is given and the path does not exist
MissingConfigFile ==
    "config_file" \in DOMAIN argv /\ ~fs["run.cfg"].exists

\* C7 as claimed: when -i names a path that does not exist, set_config ends
\* with exit status 1 and a message that names the path, whatever the other
\* options are; no file is read and nothing is returned.
C7_MissingFileNamesPath ==
    MissingConfigFile =>
        /\ status # "returned"
        /\ opened = <<>>
        /\ status # "running" =>
              /\ status = "exit1"
              /\ \E k \in DOMAIN stderr : stderr[k].path = "run.cfg"

\* C7, amended: when -i names a path that does not exist, set_config ends
\* with exit status 1 in the command line step or in the -i step, reads no
\* file and returns nothing; the message names the path when the other
\* options are valid, and is the message of the command line validation
\* when they are not.
C7_MissingFileExits ==
    MissingConfigFile =>
        /\ status # "returned"
        /\ opened = <<>>
        /\ pc \in {"defaults", "options", "config_file"}
        /\ status # "running" =>
              /\ status = "exit1"
              /\ IF Invalid(argv)
                   THEN /\ pc = "options"
                        /\ Len(stderr) = 1
                        /\ stderr[1].src = "command line config"
                        /\ stderr[1].path = ""
                   ELSE /\ pc = "config_file"
                        /\ stderr = <<Msg("option -i",
                                          "configuration file not found",
                                          "run.cfg")>>

\* the run ended on the missing file while daq-config and .daq-acquire exist
C7_Witness ==
    /\ MissingConfigFile
    /\ status = "exit1"
    /\ \E k \in DOMAIN stderr : stderr[k].path = "run.cfg"
    /\ fs[CURR_DIR_CONFIG].exists
    /\ fs[HOME_DIR_CONFIG].exists
    /\ "gains" \in DOMAIN argv

----------------------------------------------------------------------------
(* C8 *)

\* the lines of a file that are not skipped: those with a word, the first
\* of which is not '#'
Kept(lines) ==
    {i \in 1..Len(lines) :
        Len(split(lines[i])) > 0 /\ split(lines[i])[1] # "#"}

\* the mapping the lines describe: for each key, the words after the key on
\* the last kept line with that key, joined by single spaces
Mapping(lines) ==
    [k \in {lower(split(lines[i])[1]) : i \in Kept(lines)} |->
        LET last == CHOOSE i \in Kept(lines) :
                      /\ lower(split(lines[i])[1]) = k
                      /\ \A j \in Kept(lines) :
                            lower(split(lines[j])[1]) = k => j <= i
        IN Str(JoinSpaces(Tail(split(lines[last]))))]

\* C8: for every readable file, parse_config_file returns the mapping its
\* lines describe, also for a line that is a key with no value.
C8_ParseReturnsMapping ==
    pc = "parsed" => (ret.exc = "" /\ ret.config = Mapping(arg.lines))

\* the same for the files in which every kept line has a value: this much
\* holds
ParseReturnsMappingWithValues ==
    (pc = "parsed" /\ \A i \in Kept(arg.lines) : Len(split(arg.lines[i])) > 1)
        => (ret.exc = "" /\ ret.config = Mapping(arg.lines))

----------------------------------------------------------------------------
(* C9 *)

\* C9: the step for daq-config reads the file exactly when it exists and a
\* recognized key is not yet used; the step for .daq-acquire likewise.
C9_DirFileReadIffUnused ==
    [][/\ pc = "curr_dir" =>
            (CURR_DIR_CONFIG \in Range(opened') <=>
                /\ fs[CURR_DIR_CONFIG].exists
                /\ \E k \in Recognized : k \notin Range(used_config_keys))
       /\ pc = "home_dir" =>
            (HOME_DIR_CONFIG \in Range(opened') <=>
                /\ fs[HOME_DIR_CONFIG].exists
                /\ \E k \in Recognized : k \notin Range(used_config_keys))]_vars

\* daq-config exists and was not read: every recognized key was used, and a
\* key that is not recognized was used too
C9_Witness ==
    /\ pc = "home_dir"
    /\ fs[CURR_DIR_CONFIG].exists
    /\ CURR_DIR_CONFIG \notin Range(opened)
    /\ Recognized \subseteq Range(used_config_keys)
    /\ Range(used_config_keys) \ Recognized # {}

\* .daq-acquire was read after daq-config gave a key that is not recognized
C9_WitnessRead ==
    /\ pc = "combined"
    /\ Range(opened) = {CURR_DIR_CONFIG, HOME_DIR_CONFIG}
    /\ Range(used_config_keys) \ Recognized # {}

----------------------------------------------------------------------------
(* C10 *)

\* C10 as claimed: a file that is read and holds an invalid value for a
\* recognized key ends the process with exit status 1, also when the key is
\* already used by a higher source.
C10_ValidatedAsRead ==
    \A p \in Range(opened) :
        InvalidValues(Gives(p)) => status = "exit1"

\* C10, amended: a file that is read is validated after the keys already
\* used are removed from it: the step ends the process with exit status 1
\* exactly when what is left of the file is invalid; an invalid value for a
\* key already used is dropped and ends nothing.
C10_ValidatedAfterDrop ==
    [][\A p \in Range(opened') \ Range(opened) :
          parse_config_file(fs[p]).exc = "" =>
              (status' = "exit1" <=>
                  Invalid(DropKeys(Gives(p), used_config_keys)))]_vars

\* set_config returned although a file it read holds an invalid value
C10_Witness ==
    /\ status = "returned"
    /\ \E p \in Range(opened) : InvalidValues(Gives(p))

----------------------------------------------------------------------------
(* acquire_data, on the configurations set_config returns *)

\* largest sample_num of a configuration given to acquire_data
MaxSamples == 2
\* largest sample_freq given to acquire_data, besides the default one
MaxFreq == 7
\* largest number of bytes beyond bytes_total the read loop is followed for
MaxOver == 2

DEFAULT_CMD_FLAGS == 0
DEFAULT_CMD_CONVERT_ARG == 5000
DEFAULT_CMD_TEST_NUM == 4
\* NANO_SEC = 1.0e9
NANO_SEC == 1000000000
\* the errno of an interrupted system call, which the read loop retries
EINTR == 4

CMD_TEST_MSG ==
    <<"success", "invalid source", "source conflict", "invalid argument",
      "argument conflict", "invalid chanlist">>

\* CMD_TEST_MSG[ret]: a negative index counts from the end of the list
TestMsg(r) ==
    IF r >= 0 THEN CMD_TEST_MSG[r + 1]
    ELSE CMD_TEST_MSG[Len(CMD_TEST_MSG) + r + 1]

\* what comedi_command_test can return: 0 for a command the device takes,
\* 1 to 5 for the step of the test that failed, -1 for a failed call
TestResults == (0 - 1)..5

\* what comedi_command can return: 0, or -1 for a failed call
CommandResults == {0, 0 - 1}

\* the errno of an OSError os.read can raise: an interruption, or another
\* error
Errnos == {EINTR, EINTR + 1}

\* the list of nchans analog references of lines 459-466; an aref that is
\* none of the three raises ValueError
ArefList(aref_str, nchans) ==
    IF aref_str = "diff"
      THEN [exc |-> "", val |-> [i \in 1..nchans |-> "AREF_DIFF"]]
    ELSE IF aref_str = "common"
      THEN [exc |-> "", val |-> [i \in 1..nchans |-> "AREF_COMMON"]]
    ELSE IF aref_str = "ground"
      THEN [exc |-> "", val |-> [i \in 1..nchans |-> "AREF_GROUND"]]
    ELSE [exc |-> "ValueError", val |-> <<>>]

\* int(NANO_SEC/sample_freq): the quotient of the floats is positive and
\* int() drops its fractional part. (The float quotient is within
\* 2^-53 of 10^9/sample_freq relatively, less than the distance
\* 1/sample_freq of an inexact quotient to the next integer, so it never
\* lands on the wrong side of an integer.)
ScanBeginArg_Round(sample_freq) ==
    (NANO_SEC \div sample_freq)
      + (IF 2 * (NANO_SEC % sample_freq) >= sample_freq THEN 1 ELSE 0)

ScanBeginArg(sample_freq) == NANO_SEC \div sample_freq

\* the command of lines 476-491
Command(cfg, aref) ==
    LET nchans == Len(cfg["channels"].n)
    IN [subdev |-> cfg["subdev"].n[1],
        flags |-> DEFAULT_CMD_FLAGS,
        scan_begin_arg |-> ScanBeginArg(cfg["sample_freq"].n[1]),
        convert_arg |-> DEFAULT_CMD_CONVERT_ARG,
        scan_end_arg |-> nchans,
        stop_arg |-> cfg["sample_num"].n[1],
        chanlist |-> [i \in 1..nchans |->
                        [chan |-> cfg["channels"].n[i],
                         rng |-> cfg["gains"].n[i],
                         aref |-> aref[i]]],
        chanlist_len |-> nchans]

\* what acquire_data leaves alone
AcquireKeeps ==
    <<argv, fs, config, options_config, used_config_keys, opened,
      validated, arg, ret>>

\* lines 446-451: comedi_open gives a device, or nothing
OpenDevice ==
    /\ pc = "open" /\ status = "running"
    /\ \E dev \in {"open", "none"} :
         /\ acq' = [acq EXCEPT !.dev = dev]
         /\ IF dev = "none"
              THEN Ends("exit1",
                        Msg("", "unable to open openning Comedi device", ""))
              ELSE pc' = "setup" /\ UNCHANGED <<status, stderr>>
    /\ UNCHANGED AcquireKeeps

\* lines 453-491
Setup ==
    /\ pc = "setup" /\ status = "running"
    /\ LET nchans == Len(config["channels"].n)
           aref == ArefList(lower(config["aref"].s[1]), nchans)
       IN IF aref.exc # ""
            THEN acq' = acq /\ Ends("uncaught", NoMsg)
            ELSE /\ acq' = [acq EXCEPT !.cmd = Command(config, aref.val)]
                 /\ pc' = "test"
                 /\ UNCHANGED <<status, stderr>>
    /\ UNCHANGED AcquireKeeps

\* lines 497-504: one pass of the loop over range(0,DEFAULT_CMD_TEST_NUM).
\* The command is kept as acquire_data built it: what the driver changes
\* in it during a test is not followed.
TestCommand ==
    /\ pc = "test" /\ status = "running"
    /\ acq.i < DEFAULT_CMD_TEST_NUM
    /\ \E r \in TestResults :
         acq' = [acq EXCEPT !.ret = r, !.i = @ + 1, !.tests = @ + 1]
    /\ UNCHANGED <<pc, status, stderr>>
    /\ UNCHANGED AcquireKeeps

\* what lines 505-508 do with the result of the last test: the message
\* written to standard error (the third field is the detail of the
\* message), if one is, and whether the process ends
ReportTest_Fatal(r) ==
    IF r # 0
      THEN [exit |-> TRUE,
            msg |-> Msg("", "unable to configure daq device", TestMsg(r))]
      ELSE [exit |-> FALSE, msg |-> NoMsg]

ReportTest(r) ==
    IF r # 0
      THEN [exit |-> FALSE,
            msg |-> Msg("", "unable to configure daq device", TestMsg(r))]
      ELSE [exit |-> FALSE, msg |-> NoMsg]

\* lines 505-508, once the loop of the tests is over
TestReport ==
    /\ pc = "test" /\ status = "running"
    /\ acq.i = DEFAULT_CMD_TEST_NUM
    /\ LET rep == ReportTest(acq.ret)
       IN IF rep.exit
            THEN Ends("exit1", rep.msg)
            ELSE /\ pc' = "command"
                 /\ stderr' = Written(rep.msg)
                 /\ UNCHANGED status
    /\ UNCHANGED acq
    /\ UNCHANGED AcquireKeeps

\* lines 510-525: comedi_command, then the locals of the read loop; the
\* message of a failed command comes after the one lines 505-508 may have
\* written
ExecuteCommand ==
    /\ pc = "command" /\ status = "running"
    /\ \E r \in CommandResults :
         IF r # 0
           THEN /\ acq' = [acq EXCEPT !.ret = r, !.commands = @ + 1]
                /\ Ends("exit1",
                        Msg("", "unable to execute comedi command", ""))
           ELSE /\ acq' = [acq EXCEPT
                             !.ret = r, !.commands = @ + 1,
                             !.bytes_total =
                                 2 * config["sample_num"].n[1]
                                   * Len(config["channels"].n),
                             !.bytes_read = 0,
                             !.datastr = <<>>]
                /\ pc' = "read"
                /\ UNCHANGED <<status, stderr>>
    /\ UNCHANGED AcquireKeeps

\* lines 526-538, a pass of the loop in which os.read(fd,bytes_total)
\* returns n bytes, the next n of the device's stream: any number up to
\* the bytes_total asked for
ReadReturns ==
    /\ pc = "read" /\ status = "running"
    /\ \E n \in 0..acq.bytes_total :
         /\ acq.bytes_read + n <= acq.bytes_total + MaxOver
         /\ acq' = [acq EXCEPT
                      !.datastr = @ \o [k \in 1..n |-> Len(@) + k],
                      !.bytes_read = @ + n]
         /\ pc' = IF acq.bytes_read + n = acq.bytes_total
                    THEN "convert" ELSE "read"
    /\ UNCHANGED <<status, stderr>>
    /\ UNCHANGED AcquireKeeps

\* lines 526-532, a pass of the loop in which os.read raises OSError: an
\* interruption goes back to the start of the loop, another error is
\* raised again and nothing catches it
ReadRaises ==
    /\ pc = "read" /\ status = "running"
    /\ \E e \in Errnos :
         /\ acq' = [acq EXCEPT !.err = e]
         /\ IF e = EINTR
              THEN UNCHANGED <<pc, status, stderr>>
              ELSE Ends("uncaught", NoMsg)
    /\ UNCHANGED AcquireKeeps

\* lines 540-584: the array of the samples has a row for each nchans
\* 2-byte values of datastr; the device is closed
Convert ==
    /\ pc = "convert" /\ status = "running"
    /\ acq' = [acq EXCEPT
                 !.rows = (Len(acq.datastr) \div 2)
                             \div Len(config["channels"].n),
                 !.dev = "closed"]
    /\ Ends("returned", NoMsg)
    /\ UNCHANGED AcquireKeeps

\* the configurations acquire_data is given: what process_config leaves of
\* the defaults, with a sample_num, a sample_freq, channels with a gain
\* each and an aref that set_config accepts
AcquireFreqs == (1..MaxFreq) \cup {DEFAULT_SAMPLE_FREQ}

AcquireConfigs ==
    LET base == process_config(DefaultConfig, "default config").config
    IN { [base EXCEPT
            !["sample_num"] = IntV(n),
            !["sample_freq"] = IntV(f),
            !["channels"] = ListV([i \in 1..k |-> i - 1]),
            !["gains"] = ListV([i \in 1..k |-> 0]),
            !["aref"] = Str(<<a>>)] :
         n \in 1..MaxSamples, f \in AcquireFreqs, k \in 1..MaxChans,
         a \in {"diff", "common", "ground"} }

InitAcquire ==
    /\ pc = "open"
    /\ config \in AcquireConfigs
    /\ acq = NoAcq
    /\ status = "running"
    /\ stderr = <<>>
    /\ argv = EmptyDict
    /\ fs = [p \in Paths |-> NoFile]
    /\ options_config = EmptyDict
    /\ used_config_keys = <<>>
    /\ opened = <<>>
    /\ validated = EmptyDict
    /\ arg = EmptyDict
    /\ ret = Running(EmptyDict)

NextAcquire ==
    \/ OpenDevice
    \/ Setup
    \/ TestCommand
    \/ TestReport
    \/ ExecuteCommand
    \/ ReadReturns
    \/ ReadRaises
    \/ Convert

SpecAcquire == InitAcquire /\ [][NextAcquire]_vars

\* the read loop of acquire_data is running or is over
InReadLoop == pc \in {"read", "convert"}

\* C11: in the read loop the number of bytes accumulated never exceeds
\* 2 * sample_num * channel_count, whatever the reads return, and the loop
\* is over exactly when the two are equal
C11_ReadNeverExceedsTotal ==
    InReadLoop =>
      /\ acq.bytes_total
           = 2 * config["sample_num"].n[1] * Len(config["channels"].n)
      /\ acq.bytes_read <= acq.bytes_total
      /\ (pc = "convert") <=> (acq.bytes_read = acq.bytes_total)

\* the parts of C11 the code keeps: the bytes held are the bytes counted,
\* and the loop is over exactly when the count equals bytes_total
ReadLoopEndsOnTotal ==
    InReadLoop =>
      /\ Len(acq.datastr) = acq.bytes_read
      /\ (pc = "convert") <=> (acq.bytes_read = acq.bytes_total)

\* an interrupted read neither adds nor discards accumulated bytes, and
\* the loop goes on
InterruptKeepsBytes ==
    [][(pc = "read" /\ acq'.err = EINTR /\ acq'.err # acq.err)
         => /\ acq'.datastr = acq.datastr
            /\ acq'.bytes_read = acq.bytes_read
            /\ pc' = "read" /\ status' = "running"]_vars

\* the read loop has taken more bytes than bytes_total
ReadOverrun == pc = "read" /\ acq.bytes_read > acq.bytes_total

\* the message lines 505-508 write for the test result r
ConfigureFailed(r) ==
    Msg("", "unable to configure daq device", TestMsg(r))

\* the message of lines 449-450
OpenFailed == Msg("", "unable to open openning Comedi device", "")

\* the message of lines 517-518
CommandFailed == Msg("", "unable to execute comedi command", "")

\* C12: the command is tested at most 4 times and is executed only after
\* the last test; whatever the last test returned the run goes on to the
\* execution, a result other than success only leaving its message on
\* standard error; the process ends with exit status 1 only where the
\* open failed or where the execution of the command failed
C12_TestsThenExecution ==
    /\ acq.tests <= 4
    /\ acq.commands > 0 =>
         /\ acq.i = DEFAULT_CMD_TEST_NUM
         /\ acq.tests = acq.i
    /\ pc = "test" => status = "running"
    /\ (pc = "command" /\ acq.commands = 0) =>
         /\ status = "running"
         /\ acq.tests = DEFAULT_CMD_TEST_NUM
         /\ stderr = (IF acq.ret # 0 THEN <<ConfigureFailed(acq.ret)>>
                      ELSE <<>>)
    /\ pc \in {"read", "convert"} => acq.commands = 1
    /\ status = "exit1" =>
         \/ /\ pc = "open" /\ acq.dev = "none" /\ acq.tests = 0
            /\ stderr = <<OpenFailed>>
         \/ /\ pc = "command" /\ acq.commands = 1 /\ acq.ret # 0
            /\ stderr \in {<<CommandFailed>>}
                 \cup {<<ConfigureFailed(r), CommandFailed>> :
                         r \in TestResults \ {0}}

\* the command was executed after a last test that failed
C12_Witness ==
    /\ pc = "read"
    /\ acq.tests = DEFAULT_CMD_TEST_NUM
    /\ acq.commands = 1
    /\ stderr \in {<<ConfigureFailed(r)>> : r \in TestResults \ {0}}

\* the command of acquire_data has been constructed
CommandBuilt == pc \notin {"open", "setup"}

\* C13: the scan-begin interval placed in the command is 10^9 / sample_freq
\* rounded to the nearest integer
C13_ScanBeginRounded ==
    CommandBuilt =>
      LET sample_freq == config["sample_freq"].n[1]
          over == NANO_SEC - acq.cmd.scan_begin_arg * sample_freq
      IN /\ sample_freq > 0
         /\ 2 * over < sample_freq
         /\ 2 * over >= 0 - sample_freq

\* C13, amended: the scan-begin interval placed in the command is
\* 10^9 / sample_freq with its fractional part dropped, the largest integer
\* whose product with sample_freq is at most 10^9
C13_ScanBeginTruncated ==
    CommandBuilt =>
      LET sample_freq == config["sample_freq"].n[1]
          over == NANO_SEC - acq.cmd.scan_begin_arg * sample_freq
      IN /\ sample_freq > 0
         /\ 0 <= over
         /\ over < sample_freq

\* a command built for a sample_freq whose quotient has a fractional part
\* of a half or more, which rounding would take up
C13_Witness ==
    /\ CommandBuilt
    /\ 2 * (NANO_SEC % config["sample_freq"].n[1])
         >= config["sample_freq"].n[1]
    /\ acq.cmd.scan_begin_arg * config["sample_freq"].n[1] < NANO_SEC

====
